---- MODULE Spec2Model ----
(***************************************************************************)
(* H2OGPT conversation integration for Home Assistant.                     *)
(*                                                                         *)
(*   src/__init__.py     async_setup_entry, async_unload_entry,            *)
(*                       answer_question_using_context, H2OGPTAgent        *)
(*   src/config_flow.py  check_connection, validate_input, ConfigFlow,     *)
(*                       OptionsFlow                                       *)
(*                                                                         *)
(* Two specifications over one set of variables:                           *)
(*   Spec       one H2OGPTAgent and the async_process calls made on it.    *)
(*              A call gives control back at each of its two awaits        *)
(*              (lines 115 and 135), so calls may overlap.                 *)
(*   SpecSetup  async_setup_entry (suspended at its await, line 48),       *)
(*              async_unload_entry and ConfigFlow.async_step_user          *)
(***************************************************************************)
EXTENDS Integers, Sequences, FiniteSets, TLC

VARIABLES
    history,      \* H2OGPTAgent.history: conversation id -> list of messages
    options,      \* entry.options: the CONF_PROMPT_CONTEXT option, or "unset"
    nextUlid,     \* number of ids ulid.ulid() has returned so far
    pc,           \* per async_process call: where the coroutine stands
    input,        \* per call: user_input (conversation_id, text)
    local,        \* per call: its local variables conversation_id, messages
    result,       \* per call: what it returned (or that it raised)
    before,       \* per call in progress: the stored list as line 125 found it
                  \* (kept for the properties only; the code keeps no copy)
    hassData,     \* hass.data[DOMAIN]: entry id -> host url
    agents,       \* entry ids with a conversation agent set
    setupPc,      \* per async_setup_entry call: where the coroutine stands
    setupEntry,   \* per setup call: the entry it was called with
    setupResult,  \* per setup call: how it ended
    lastCheck,    \* per setup call: what the server answered to its check
    flow,         \* the config flow: what async_step_user returned last
    submitted     \* what the server answered to the wizard's last submission

vars == <<history, options, nextUlid, pc, input, local, result, before,
          hassData, agents, setupPc, setupEntry, setupResult, lastCheck,
          flow, submitted>>

agentVars == <<history, options, nextUlid, pc, input, local, result, before>>
setupVars == <<hassData, agents, setupPc, setupEntry, setupResult, lastCheck,
               flow, submitted>>

(***************************************************************************)
(* Bounds                                                                  *)
(***************************************************************************)
\* async_process calls made in one behaviour
MaxCalls == 3
\* config entries of the integration
MaxEntries == 2
\* async_setup_entry calls made in one behaviour
MaxSetups == 3

Calls == 1..MaxCalls
Entries == 1..MaxEntries
Setups == 1..MaxSetups

\* user_input.text
Texts == {"t1", "t2"}
\* values of the CONF_PROMPT_CONTEXT option
Contexts == {"ctxA"}

\* user_input.conversation_id is None
NoId == 0
\* a conversation id the agent never minted
StaleId == MaxCalls + 1

(***************************************************************************)
(* Messages.  The system and user messages are the dicts of lines 128 and  *)
(* 130.  The reply is appended as the bare string `response` (line 153);   *)
(* it is tagged here so that the elements of a list stay comparable.       *)
(***************************************************************************)
DEFAULT_PROMPT_CONTEXT == "default"

SystemMessage(context) == [role |-> "system", content |-> context]
UserMessage(text) == [role |-> "user", content |-> text]
ReplyEntry(response) == [role |-> "reply", content |-> response]

\* self.entry.options.get(CONF_PROMPT_CONTEXT, DEFAULT_PROMPT_CONTEXT)
RawPromptContext(opts) == IF opts = "unset" THEN DEFAULT_PROMPT_CONTEXT ELSE opts

(***************************************************************************)
(* The remote side.  GradioClient(...) either returns a client or raises;  *)
(* client.predict either raises or returns the text of the reply.          *)
(***************************************************************************)
ClientOutcomes == {"client", "raises"}

Payloads == {"{'response': 'r1'}", "{'other': 'r1'}", "'r1'", "not a dict"}

PredictOutcomes == {[raised |-> TRUE, payload |-> ""]}
                   \cup {[raised |-> FALSE, payload |-> p] : p \in Payloads}

Raise(exc) == [ok |-> FALSE, exc |-> exc, value |-> ""]
Return(value) == [ok |-> TRUE, exc |-> "", value |-> value]

\* ast.literal_eval(answer): the Python literal the text denotes
LiteralEval(answer) ==
    CASE answer = "{'response': 'r1'}" ->
            [ok |-> TRUE, type |-> "dict", key |-> "response", value |-> "r1"]
      [] answer = "{'other': 'r1'}" ->
            [ok |-> TRUE, type |-> "dict", key |-> "other", value |-> "r1"]
      [] answer = "'r1'" ->
            [ok |-> TRUE, type |-> "str", key |-> "", value |-> "r1"]
      [] OTHER ->
            [ok |-> FALSE, type |-> "", key |-> "", value |-> ""]

\* ast.literal_eval(answer)["response"]
ResponseField(answer) ==
    LET v == LiteralEval(answer) IN
    IF ~v.ok THEN Raise("SyntaxError")
    ELSE IF v.type # "dict" THEN Raise("TypeError")
    ELSE IF v.key # "response" THEN Raise("KeyError")
    ELSE Return(v.value)

\* answer_question_using_context: one predict call, then the parse
AnswerQuestionUsingContext(predict) ==
    IF predict.raised THEN Raise("RpcError") ELSE ResponseField(predict.payload)

(***************************************************************************)
(* H2OGPTAgent.async_process, cut at its two awaits.                       *)
(***************************************************************************)
NoInput == [conversation_id |-> NoId, text |-> ""]
NoLocal == [conversation_id |-> NoId, alias |-> FALSE, messages |-> <<>>]
NoResult == [kind |-> "none", conversation_id |-> NoId, speech |-> ""]

\* lines 123-128: the session the call works on.  For a known id `messages`
\* is the very list stored in history (alias); otherwise a fresh list.
ResolveSession(h, conversation_id, ulid, context) ==
    IF conversation_id \in DOMAIN h
    THEN [conversation_id |-> conversation_id, alias |-> TRUE, messages |-> <<>>]
    ELSE [conversation_id |-> ulid, alias |-> FALSE,
          messages |-> <<SystemMessage(context)>>]

\* messages.append(x) as seen in history: an aliased list is the stored one
HistoryAfterAppend(h, loc, x) ==
    IF loc.alias
    THEN [h EXCEPT ![loc.conversation_id] = Append(@, x)]
    ELSE h

\* messages.append(x) as seen in the call's own list
LocalAfterAppend(loc, x) ==
    IF loc.alias THEN loc ELSE [loc EXCEPT !.messages = Append(@, x)]

\* lines 153-154: messages.append(response); self.history[id] = messages
HistoryAfterStore(h, loc, response) ==
    IF loc.alias
    THEN [h EXCEPT ![loc.conversation_id] = Append(@, ReplyEntry(response))]
    ELSE [i \in DOMAIN h \cup {loc.conversation_id} |->
            IF i = loc.conversation_id
            THEN Append(loc.messages, ReplyEntry(response))
            ELSE h[i]]

\* lines 142-149: the error reply, error code UNKNOWN (the text of the
\* exception, which the speech ends with, is left out)
ErrorResult(loc, exc) ==
    [kind |-> "error", conversation_id |-> loc.conversation_id,
     speech |-> "Sorry, I had a problem talking to H2OGPT"]

\* lines 156-160: the speech reply
SpeechResult(loc, response) ==
    [kind |-> "speech", conversation_id |-> loc.conversation_id, speech |-> response]

\* an exception leaves async_process
RaisedResult == [kind |-> "raised", conversation_id |-> NoId, speech |-> ""]

\* the ids a caller can pass: none, one never minted, or one a call returned
InputIds == {NoId, StaleId}
            \cup {result[c].conversation_id :
                    c \in {d \in Calls : result[d].kind \in {"speech", "error"}}}

\* calls are numbered in the order they are made
NextCall(c) == pc[c] = "idle" /\ \A d \in Calls : d < c => pc[d] # "idle"

\* lines 119-130, run without suspension once the client is there: read the
\* prompt context, resolve the session, append the user message
UserTurn(h, inp, minted, opts) ==
    LET loc == ResolveSession(h, inp.conversation_id, minted + 1,
                              RawPromptContext(opts))
    IN  [history |-> HistoryAfterAppend(h, loc, UserMessage(inp.text)),
         local |-> LocalAfterAppend(loc, UserMessage(inp.text)),
         nextUlid |-> IF loc.alias THEN minted ELSE minted + 1]

\* lines 134-160, run once the executor job of line 135 has ended
ReplyTurn(h, loc, predict) ==
    LET answer == AnswerQuestionUsingContext(predict) IN
    IF answer.ok
    THEN [history |-> HistoryAfterStore(h, loc, answer.value),
          result |-> SpeechResult(loc, answer.value)]
    ELSE [history |-> h, result |-> ErrorResult(loc, answer.exc)]

\* async_process is called: it suspends at line 115 (client creation)
BeginProcess(c) ==
    /\ NextCall(c)
    /\ \E id \in InputIds, text \in Texts :
          input' = [input EXCEPT ![c] = [conversation_id |-> id, text |-> text]]
    /\ pc' = [pc EXCEPT ![c] = "client"]
    /\ UNCHANGED <<history, options, nextUlid, local, result, before>>
    /\ UNCHANGED setupVars

\* the executor job of line 115 ends: the exception of GradioClient(...)
\* leaves async_process, or the call runs to its next await at line 135
ClientReturns(c) ==
    /\ pc[c] = "client"
    /\ \E outcome \in ClientOutcomes :
          IF outcome = "raises"
          THEN /\ pc' = [pc EXCEPT ![c] = "done"]
               /\ result' = [result EXCEPT ![c] = RaisedResult]
               /\ UNCHANGED <<history, nextUlid, local, before>>
          ELSE LET turn == UserTurn(history, input[c], nextUlid, options) IN
               /\ before' = [before EXCEPT ![c] =
                                IF turn.local.alias
                                THEN history[turn.local.conversation_id]
                                ELSE <<>>]
               /\ history' = turn.history
               /\ local' = [local EXCEPT ![c] = turn.local]
               /\ nextUlid' = turn.nextUlid
               /\ pc' = [pc EXCEPT ![c] = "answer"]
               /\ UNCHANGED result
    /\ UNCHANGED <<options, input>>
    /\ UNCHANGED setupVars

\* the executor job of line 135 ends: error reply or stored reply
AnswerReturns(c) ==
    /\ pc[c] = "answer"
    /\ \E predict \in PredictOutcomes :
          LET turn == ReplyTurn(history, local[c], predict) IN
          /\ history' = turn.history
          /\ result' = [result EXCEPT ![c] = turn.result]
    /\ pc' = [pc EXCEPT ![c] = "done"]
    /\ local' = [local EXCEPT ![c] = NoLocal]
    /\ before' = [before EXCEPT ![c] = <<>>]
    /\ UNCHANGED <<options, nextUlid, input>>
    /\ UNCHANGED setupVars

\* OptionsFlow.async_step_init with user input: the host stores it as the
\* entry's options (the schema fills in the default)
OptionsFlowInit ==
    /\ \E context \in Contexts :
          /\ context # options
          /\ options' = context
    /\ UNCHANGED <<history, nextUlid, pc, input, local, result, before>>
    /\ UNCHANGED setupVars

(***************************************************************************)
(* Reachability check, activation and the setup wizard.                    *)
(***************************************************************************)
HTTP_OK == 200

\* what requests.get(host_url) meets: a response with a status code, or a
\* transport failure (DNS, TCP, TLS), which requests raises as an exception
Responses == {[transport |-> FALSE, status |-> 200],
              [transport |-> FALSE, status |-> 404],
              [transport |-> FALSE, status |-> 503],
              [transport |-> TRUE, status |-> 0]}
NoResponse == [transport |-> FALSE, status |-> 0]

\* a variant of check_connection that does not look at the status code
CheckConnectionAnyStatus(response) ==
    IF response.transport THEN Raise("requests.ConnectionError")
    ELSE Return("Connection to API successful!")

\* config_flow.check_connection.  requests.get raises
\* requests.exceptions.ConnectionError (not an HTTPError) on transport failure.
CheckConnection(response) ==
    IF response.transport THEN Raise("requests.ConnectionError")
    ELSE IF response.status = HTTP_OK THEN Return("Connection to API successful!")
    ELSE Raise("requests.HTTPError")

\* the except clauses of async_setup_entry (lines 51-55): urllib's URLError
\* gives False, every other exception ConfigEntryNotReady
SetupOutcome(checked) ==
    IF checked.ok THEN "true"
    ELSE IF checked.exc = "urllib.URLError" THEN "false"
    ELSE "not_ready"

\* entry.data[CONF_HOST_URL]
HostUrl(e) == [host |-> e]

\* setup calls are numbered in the order they are made
NextSetupCall(s) ==
    setupPc[s] = "idle" /\ \A t \in Setups : t < s => setupPc[t] # "idle"

\* async_setup_entry is called by the host for an entry that is not loaded:
\* it suspends at line 48 while the executor runs check_connection
BeginSetupEntry(s) ==
    /\ NextSetupCall(s)
    /\ \E e \in Entries :
          /\ e \notin agents
          /\ setupEntry' = [setupEntry EXCEPT ![s] = e]
    /\ setupPc' = [setupPc EXCEPT ![s] = "check"]
    /\ UNCHANGED <<hassData, agents, setupResult, lastCheck, flow, submitted>>
    /\ UNCHANGED agentVars

\* the executor job of line 48 ends: lines 51-60
CheckReturns(s) ==
    /\ setupPc[s] = "check"
    /\ \E response \in Responses :
          LET outcome == SetupOutcome(CheckConnection(response))
              e == setupEntry[s]
          IN  /\ lastCheck' = [lastCheck EXCEPT ![s] = response]
              /\ setupResult' = [setupResult EXCEPT ![s] = outcome]
              /\ IF outcome = "true"
                 THEN /\ hassData' = [i \in DOMAIN hassData \cup {e} |->
                                        IF i = e THEN HostUrl(e) ELSE hassData[i]]
                      /\ agents' = agents \cup {e}
                 ELSE UNCHANGED <<hassData, agents>>
    /\ setupPc' = [setupPc EXCEPT ![s] = "done"]
    /\ UNCHANGED <<setupEntry, flow, submitted>>
    /\ UNCHANGED agentVars

\* async_unload_entry, called by the host for a loaded entry (no await)
AsyncUnloadEntry(e) ==
    /\ e \in agents
    /\ hassData' = [i \in DOMAIN hassData \ {e} |-> hassData[i]]
    /\ agents' = agents \ {e}
    /\ UNCHANGED <<setupPc, setupEntry, setupResult, lastCheck, flow, submitted>>
    /\ UNCHANGED agentVars

\* functools.partial(func, ...): func must be callable; check_connection
\* itself is, the string it returns is not
IsCallable(value) == value = "check_connection"
Partial(func) == IF IsCallable(func) THEN Return("partial") ELSE Raise("TypeError")

\* validate_input: line 57 CALLS check_connection, on the spot, and hands
\* its result to partial; the executor job and its await are only reached
\* if partial returned
ValidateInput(response) ==
    LET checked == CheckConnection(response) IN
    IF ~checked.ok THEN checked
    ELSE LET job == Partial(checked.value) IN
         IF ~job.ok THEN job ELSE Return("None")

\* the except clauses of async_step_user (lines 77-85)
StepUserResult(validated) ==
    IF validated.ok THEN [type |-> "create_entry", errors |-> "none"]
    ELSE IF validated.exc = "requests.HTTPError"
         THEN [type |-> "form", errors |-> "cannot_connect"]
    ELSE [type |-> "form", errors |-> "unknown"]

NoFlow == [type |-> "none", errors |-> "none"]

\* async_step_user(None): the empty form
StepUserShow ==
    /\ flow = NoFlow
    /\ flow' = [type |-> "form", errors |-> "none"]
    /\ UNCHANGED <<hassData, agents, setupPc, setupEntry, setupResult,
                   lastCheck, submitted>>
    /\ UNCHANGED agentVars

\* async_step_user(user_input): the form is submitted with a host url
StepUserSubmit ==
    /\ flow.type = "form"
    /\ \E response \in Responses :
          /\ submitted' = response
          /\ flow' = StepUserResult(ValidateInput(response))
    /\ UNCHANGED <<hassData, agents, setupPc, setupEntry, setupResult, lastCheck>>
    /\ UNCHANGED agentVars

(***************************************************************************)
(* Specifications                                                          *)
(***************************************************************************)
Init ==
    /\ history = <<>>
    /\ options = "unset"
    /\ nextUlid = 0
    /\ pc = [c \in Calls |-> "idle"]
    /\ input = [c \in Calls |-> NoInput]
    /\ local = [c \in Calls |-> NoLocal]
    /\ result = [c \in Calls |-> NoResult]
    /\ before = [c \in Calls |-> <<>>]
    /\ hassData = <<>>
    /\ agents = {}
    /\ setupPc = [s \in Setups |-> "idle"]
    /\ setupEntry = [s \in Setups |-> 0]
    /\ setupResult = [s \in Setups |-> "none"]
    /\ lastCheck = [s \in Setups |-> NoResponse]
    /\ flow = NoFlow
    /\ submitted = NoResponse

Next ==
    \/ \E c \in Calls : BeginProcess(c)
    \/ \E c \in Calls : ClientReturns(c)
    \/ \E c \in Calls : AnswerReturns(c)
    \/ OptionsFlowInit

Spec == Init /\ [][Next]_vars

NextSetup ==
    \/ \E s \in Setups : BeginSetupEntry(s)
    \/ \E s \in Setups : CheckReturns(s)
    \/ \E e \in Entries : AsyncUnloadEntry(e)
    \/ StepUserShow
    \/ StepUserSubmit

SpecSetup == Init /\ [][NextSetup]_vars

(***************************************************************************)
(* Properties                                                              *)
(***************************************************************************)
\* the system message, then user messages and replies taking turns
Alternating(messages) ==
    /\ Len(messages) >= 1
    /\ messages[1].role = "system"
    /\ \A i \in 2..Len(messages) :
          messages[i].role = IF i % 2 = 0 THEN "user" ELSE "reply"

\* the calls that returned a reply for session id
Succeeded(id) ==
    {c \in Calls : result[c].kind = "speech" /\ result[c].conversation_id = id}

\* the calls on session id that failed: an error reply, or a raised exception
FailedOn(id) ==
    {c \in Calls :
        \/ result[c].kind = "error" /\ result[c].conversation_id = id
        \/ result[c].kind = "raised" /\ input[c].conversation_id = id}

\* no call on session id is between its user message and its return
Quiet(id) ==
    \A c \in Calls : pc[c] = "answer" => local[c].conversation_id # id

\* call c returns (or raises) in this step
Ends(c) == pc[c] # "done" /\ pc'[c] = "done"

\* call c, ending in this step, was made with an absent or unknown id
Unseen(c) ==
    \/ pc[c] = "answer" /\ ~local[c].alias
    \/ pc[c] = "client" /\ input[c].conversation_id \notin DOMAIN history

Is200(response) == ~response.transport /\ response.status = HTTP_OK

\* C1: a session with N successful process calls, no failed one and none in
\* progress holds exactly 1 + 2N messages: the system message, then N
\* (user, reply) pairs.
C1_LengthAfterSuccesses ==
    /\ \A c \in Calls :
          result[c].kind = "speech" => result[c].conversation_id \in DOMAIN history
    /\ \A id \in DOMAIN history :
          (FailedOn(id) = {} /\ Quiet(id)) =>
              /\ Len(history[id]) = 1 + 2 * Cardinality(Succeeded(id))
              /\ Alternating(history[id])

\* C2: a process call that ends in an error reply leaves the list stored
\* for its session as it was before the call, and returns the input id when
\* that id was known, the freshly minted id otherwise.
C2_FailureLeavesSession ==
    [][\A c \in Calls :
          (Ends(c) /\ result'[c].kind = "error") =>
              LET id == input[c].conversation_id IN
              IF local[c].alias
              THEN /\ history'[id] = before[c]
                   /\ result'[c].conversation_id = id
              ELSE /\ id \notin DOMAIN history
                   /\ result'[c].conversation_id = local[c].conversation_id
                   /\ result'[c].conversation_id \notin InputIds]_vars

\* C3: every stored list is the system message followed by user messages
\* and replies strictly taking turns.
C3_StoredListsAlternate ==
    \A id \in DOMAIN history : Alternating(history[id])

\* C4: a call that passes the id a failed call returned is resolved to that
\* same id (no new id is minted for it).
C4_FailedIdContinues ==
    \A c \in Calls : \A d \in Calls :
        ( /\ c < d
          /\ result[c].kind = "error"
          /\ result[d].kind \in {"speech", "error"}
          /\ input[d].conversation_id = result[c].conversation_id )
        => result[d].conversation_id = input[d].conversation_id

\* C5: a process call whose id is absent or not in the session map adds
\* exactly one entry to the map, whose first message is the system message
\* with the prompt context configured when the call read it (line 119).
C5_UnseenIdCreatesSession ==
    [][\A c \in Calls :
          /\ (pc[c] = "client" /\ pc'[c] = "answer" /\ ~local'[c].alias) =>
                local'[c].messages[1] = SystemMessage(RawPromptContext(options))
          /\ (Ends(c) /\ Unseen(c)) =>
                \E id \in DOMAIN history' :
                    /\ id \notin DOMAIN history
                    /\ DOMAIN history' = DOMAIN history \cup {id}
                    /\ history'[id][1] = local[c].messages[1]
                    /\ history'[id][1].role = "system"]_vars

\* C6: no process call ends by raising: every call that has ended returned
\* a reply or an error reply.
C6_NothingRaised ==
    \A c \in Calls : pc[c] = "done" => result[c].kind \in {"speech", "error"}

\* C7: a setup whose reachability check did not return 200 registers neither
\* the agent nor the registry entry and ends "not ready"; an agent or a
\* registry entry is present only for an entry one of whose setups had its
\* check answered 200.
C7_SetupNeedsReachableHost ==
    [][/\ \A s \in Setups :
             (setupPc[s] = "check" /\ setupPc'[s] = "done") =>
                 IF Is200(lastCheck'[s])
                 THEN /\ setupResult'[s] = "true"
                      /\ setupEntry[s] \in agents'
                      /\ setupEntry[s] \in DOMAIN hassData'
                 ELSE /\ setupResult'[s] = "not_ready"
                      /\ agents' = agents
                      /\ hassData' = hassData
       /\ \A e \in agents' \cup DOMAIN hassData' :
             \E s \in Setups :
                 /\ setupPc'[s] = "done"
                 /\ setupEntry'[s] = e
                 /\ Is200(lastCheck'[s])]_vars

\* a setup refused after a transport failure or a 503 while it left nothing
\* registered for its entry, and another entry set up
C7_Witness ==
    \E s \in Setups : \E t \in Setups :
        /\ setupResult[s] = "not_ready"
        /\ (lastCheck[s].transport \/ lastCheck[s].status = 503)
        /\ setupEntry[s] \notin agents
        /\ setupEntry[s] \notin DOMAIN hassData
        /\ setupResult[t] = "true"
        /\ setupEntry[t] \in agents
        /\ hassData[setupEntry[t]] = HostUrl(setupEntry[t])

\* C8: in the wizard every failed reachability check, a status other than
\* 200 or a transport failure, re-shows the form with cannot_connect.
C8_WizardCannotConnect ==
    (submitted # NoResponse /\ ~Is200(submitted)) =>
        flow = [type |-> "form", errors |-> "cannot_connect"]

\* C9: the wizard creates the entry if and only if the check of the
\* submitted url returned 200, and then shows no error.
C9_WizardCreatesIff200 ==
    submitted # NoResponse =>
        /\ (flow.type = "create_entry") <=> Is200(submitted)
        /\ Is200(submitted) => flow.errors = "none"

\* C10: with calls overlapping at their awaits and none of them failing,
\* every stored list stays the system message followed by user messages and
\* replies taking turns, and the reply of every call that returned stands
\* directly after that call's user message.
C10_OverlapKeepsOrder ==
    (\A c \in Calls : result[c].kind # "error") =>
        /\ \A id \in DOMAIN history : Alternating(history[id])
        /\ \A c \in Calls :
              result[c].kind = "speech" =>
                  LET messages == history[result[c].conversation_id] IN
                  \E i \in 1..(Len(messages) - 1) :
                      /\ messages[i] = UserMessage(input[c].text)
                      /\ messages[i + 1] = ReplyEntry(result[c].speech)

====
